---------------------------- MODULE Spec2Model ----------------------------
(***************************************************************************)
(* conformvids.py: conform every .mp4 of a folder to the highest           *)
(* resolution found among them.  main() probes every file with ffprobe,    *)
(* keeps the resolution with the largest pixel count, then probes every    *)
(* file again and runs ffmpeg on it: a stream copy when the file has the   *)
(* highest resolution, a scale to that resolution otherwise.               *)
(***************************************************************************)
EXTENDS Integers, Sequences, FiniteSets, TLC

(* Bounds of the model. *)
MaxFiles == 2
MaxArea == 2

(* Configuration of the script. *)
FOLDER_PATH == "/path/to/your/folder"
OUTPUT_DIR == FOLDER_PATH \o "/" \o "output"
USE_GPU == TRUE
GPU_ENCODER == "h264_nvenc"
VIDEO_CODEC == "libx264"
CRF_VALUE == 18
PRESET == "medium"
AUDIO_CODEC == "copy"

(* Python's None, the value of max_res_file before a file is selected. *)
None == "None"

VARIABLES
    pc,            \* position of main(): start, select, process, done
    mp4_files,     \* the list built from os.listdir, in enumeration order
    i,             \* index in mp4_files of the file the current loop is at
    max_pixels,
    max_width,
    max_height,
    max_res_file,
    w,             \* resolution returned by the latest probe
    h,
    probed,        \* history: the resolutions returned in the selection loop
    output_dir,    \* TRUE once os.makedirs(OUTPUT_DIR) has run
    runs,          \* history: the command lines handed to subprocess.run
    returncode,    \* exit status of the latest ffmpeg run (main() drops it)
    probe_msg,     \* what the latest call of get_video_resolution printed
    out            \* what main() printed

vars == <<pc, mp4_files, i, max_pixels, max_width, max_height, max_res_file,
          w, h, probed, output_dir, runs, returncode,
          probe_msg, out>>

(* os.path.join of a directory and a name. *)
PathJoin(dir, name) == dir \o "/" \o name

(* The names os.listdir can return: n distinct names ending in .mp4. *)
FileName(k) == "v" \o ToString(k) \o ".mp4"

Listing(n) == [k \in 1..n |-> FileName(k)]

(* ------------------------------------------------------------------ *)
(* get_video_resolution                                                 *)
(* ------------------------------------------------------------------ *)

(* The resolutions of the video streams: at most MaxArea pixels. *)
Resolutions ==
    {res \in (1..MaxArea) \X (1..MaxArea) : res[1] * res[2] <= MaxArea}

(* One stream entry of ffprobe's JSON, as the keys it carries: a stream    *)
(* with its dimensions, one whose dimensions ffprobe could not tell (0x0), *)
(* and entries that lack a key.                                            *)
StreamEntries ==
    {[width |-> res[1], height |-> res[2]] : res \in Resolutions}
    \cup {[width |-> 0, height |-> 0]}
    \cup [height : {MaxArea}]
    \cup [width : {MaxArea}]

(* What one run of ffprobe can give back: its exit status, whether its     *)
(* stdout is JSON that json.loads accepts, and the "streams" list of it.   *)
FfprobeResults ==
    {[returncode |-> 1, valid_json |-> FALSE, streams |-> <<>>]}
    \cup {[returncode |-> 0, valid_json |-> FALSE, streams |-> <<>>]}
    \cup {[returncode |-> 0, valid_json |-> TRUE, streams |-> <<>>]}
    \cup {[returncode |-> 0, valid_json |-> TRUE, streams |-> <<s>>] : s \in StreamEntries}

(* The try block raises: json.loads fails, streams[0] or a key is missing. *)
ParseRaises(result) ==
    \/ ~result.valid_json
    \/ Len(result.streams) = 0
    \/ "width" \notin DOMAIN result.streams[1]
    \/ "height" \notin DOMAIN result.streams[1]

(* Variant: a stream entry without "height" still yields its width. *)
get_video_resolution_partial(result) ==
    IF result.returncode # 0
    THEN <<0, 0>>
    ELSE IF ~result.valid_json \/ Len(result.streams) = 0
              \/ "width" \notin DOMAIN result.streams[1]
         THEN <<0, 0>>
         ELSE IF "height" \notin DOMAIN result.streams[1]
              THEN <<result.streams[1].width, 0>>
              ELSE <<result.streams[1].width, result.streams[1].height>>

get_video_resolution(result) ==
    IF result.returncode # 0
    THEN <<0, 0>>
    ELSE IF ParseRaises(result)
         THEN <<0, 0>>
         ELSE <<result.streams[1].width, result.streams[1].height>>

(* The diagnostic get_video_resolution prints, if any. *)
ProbeMessages(result) ==
    IF result.returncode # 0
    THEN <<"FFprobe error">>
    ELSE IF ParseRaises(result)
         THEN <<"Error parsing resolution">>
         ELSE <<>>

(* ------------------------------------------------------------------ *)
(* The ffmpeg command lines of main()                                   *)
(* ------------------------------------------------------------------ *)

CopyCmd(filename) ==
    <<"ffmpeg", "-y", "-i", PathJoin(FOLDER_PATH, filename),
      "-c", "copy", PathJoin(OUTPUT_DIR, filename)>>

(* Variant: the libx264 arguments are used whatever USE_GPU says. *)
video_encoder_args_cpu ==
    <<"-c:v", VIDEO_CODEC, "-preset", PRESET, "-crf", ToString(CRF_VALUE)>>

video_encoder_args ==
    IF USE_GPU
    THEN <<"-c:v", GPU_ENCODER>>
    ELSE <<"-c:v", VIDEO_CODEC, "-preset", PRESET, "-crf", ToString(CRF_VALUE)>>

ScaleFilter(width, height) == "scale=" \o ToString(width) \o ":" \o ToString(height)

ScaleCmd(filename, width, height) ==
    <<"ffmpeg", "-y", "-i", PathJoin(FOLDER_PATH, filename),
      "-vf", ScaleFilter(width, height)>>
    \o video_encoder_args
    \o <<"-c:a", AUDIO_CODEC, PathJoin(OUTPUT_DIR, filename)>>

(* Variant: the probe is compared with the target's height and width. *)
EncodeCmdSwapped(filename, pw, ph, tw, th) ==
    IF pw = th /\ ph = tw
    THEN CopyCmd(filename)
    ELSE ScaleCmd(filename, tw, th)

(* Variant: one matching dimension is enough for a stream copy. *)
EncodeCmdEither(filename, pw, ph, tw, th) ==
    IF pw = tw \/ ph = th
    THEN CopyCmd(filename)
    ELSE ScaleCmd(filename, tw, th)

(* The command main() builds for a file whose probe returned (pw, ph). *)
EncodeCmd(filename, pw, ph, tw, th) ==
    IF pw = tw /\ ph = th
    THEN CopyCmd(filename)
    ELSE ScaleCmd(filename, tw, th)

(* ------------------------------------------------------------------ *)
(* main                                                                 *)
(* ------------------------------------------------------------------ *)

(* Variant: a file with as many pixels as the best replaces it. *)
BetterGe(pw, ph, best) == pw * ph >= best

(* The test of the selection loop: strictly more pixels than the best. *)
Better(pw, ph, best) == pw * ph > best

(* Exit statuses of ffmpeg: success, failure. *)
ExitStatuses == {0, 1}

(* main() is entered: the listing is what os.listdir gives; the locals    *)
(* are not yet assigned and hold the values lines 37-39 will give them.   *)
Init ==
    /\ pc = "start"
    /\ mp4_files \in {Listing(n) : n \in 0..MaxFiles}
    /\ i = 1
    /\ max_pixels = 0
    /\ max_width = 0
    /\ max_height = 0
    /\ max_res_file = None
    /\ w = 0
    /\ h = 0
    /\ probed = <<>>
    /\ output_dir = FALSE
    /\ runs = <<>>
    /\ returncode = 0
    /\ probe_msg = <<>>
    /\ out = <<>>

(* No .mp4 in the folder: print and return. *)
NoFiles ==
    /\ pc = "start"
    /\ mp4_files = <<>>
    /\ pc' = "done"
    /\ out' = Append(out, "No MP4 files found")
    /\ UNCHANGED <<mp4_files, i, max_pixels, max_width, max_height,
                   max_res_file, w, h, probed, output_dir, runs, returncode, probe_msg>>

(* Variant: the best pixel count starts below zero. *)
StartSelectionNeg ==
    /\ pc = "start"
    /\ mp4_files # <<>>
    /\ pc' = "select"
    /\ i' = 1
    /\ max_pixels' = -1
    /\ max_width' = 0
    /\ max_height' = 0
    /\ max_res_file' = None
    /\ UNCHANGED <<mp4_files, w, h, probed, output_dir, runs, returncode,
                   probe_msg, out>>

StartSelection ==
    /\ pc = "start"
    /\ mp4_files # <<>>
    /\ pc' = "select"
    /\ i' = 1
    /\ max_pixels' = 0
    /\ max_width' = 0
    /\ max_height' = 0
    /\ max_res_file' = None
    /\ UNCHANGED <<mp4_files, w, h, probed, output_dir, runs, returncode,
                   probe_msg, out>>

(* One iteration of the selection loop. *)
SelectStep ==
    /\ pc = "select"
    /\ i <= Len(mp4_files)
    /\ \E result \in FfprobeResults :
         LET res == get_video_resolution(result)
             better == Better(res[1], res[2], max_pixels)
         IN /\ w' = res[1]
            /\ h' = res[2]
            /\ probed' = Append(probed, res)
            /\ probe_msg' = ProbeMessages(result)
            /\ max_pixels' = IF better THEN res[1] * res[2] ELSE max_pixels
            /\ max_width' = IF better THEN res[1] ELSE max_width
            /\ max_height' = IF better THEN res[2] ELSE max_height
            /\ max_res_file' = IF better THEN mp4_files[i] ELSE max_res_file
    /\ i' = i + 1
    /\ UNCHANGED <<pc, mp4_files, output_dir, runs, returncode, out>>

(* After the selection loop no file was selected: print and return. *)
SelectionFailure ==
    /\ pc = "select"
    /\ i > Len(mp4_files)
    /\ max_res_file = None
    /\ pc' = "done"
    /\ out' = Append(out, "Could not determine a file with the highest resolution.")
    /\ UNCHANGED <<mp4_files, i, max_pixels, max_width, max_height,
                   max_res_file, w, h, probed, output_dir, runs, returncode, probe_msg>>

(* Variant: main() goes on without testing max_res_file. *)
CreateOutputDirUnchecked ==
    /\ pc = "select"
    /\ i > Len(mp4_files)
    /\ out' = Append(out, "Highest resolution")
    /\ output_dir' = TRUE
    /\ pc' = "process"
    /\ i' = 1
    /\ UNCHANGED <<mp4_files, max_pixels, max_width, max_height,
                   max_res_file, w, h, probed, runs, returncode, probe_msg>>

(* A file was selected: print it and create the output directory. *)
CreateOutputDir ==
    /\ pc = "select"
    /\ i > Len(mp4_files)
    /\ max_res_file # None
    /\ out' = Append(out, "Highest resolution")
    /\ output_dir' = TRUE
    /\ pc' = "process"
    /\ i' = 1
    /\ UNCHANGED <<mp4_files, max_pixels, max_width, max_height,
                   max_res_file, w, h, probed, runs, returncode, probe_msg>>

(* Variant: a failed encode ends the batch (subprocess.run with check). *)
ProcessStepChecked ==
    /\ pc = "process"
    /\ i <= Len(mp4_files)
    /\ \E result \in FfprobeResults, status \in ExitStatuses :
         LET res == get_video_resolution(result)
             cmd == EncodeCmd(mp4_files[i], res[1], res[2], max_width, max_height)
         IN /\ w' = res[1]
            /\ h' = res[2]
            /\ probe_msg' = ProbeMessages(result)
            /\ out' = Append(out, IF res[1] = max_width /\ res[2] = max_height
                                  THEN "Doing pass-through (copy)" ELSE "Scaling")
            /\ runs' = Append(runs, cmd)
            /\ returncode' = status
            /\ pc' = IF status # 0 THEN "done" ELSE pc
    /\ i' = i + 1
    /\ UNCHANGED <<mp4_files, max_pixels, max_width, max_height,
                   max_res_file, probed, output_dir>>

(* Variant: a larger probe of the processing loop moves the target. *)
ProcessStepRetarget ==
    /\ pc = "process"
    /\ i <= Len(mp4_files)
    /\ \E result \in FfprobeResults, status \in ExitStatuses :
         LET res == get_video_resolution(result)
             cmd == EncodeCmd(mp4_files[i], res[1], res[2], max_width, max_height)
             better == Better(res[1], res[2], max_pixels)
         IN /\ w' = res[1]
            /\ h' = res[2]
            /\ probe_msg' = ProbeMessages(result)
            /\ out' = Append(out, IF res[1] = max_width /\ res[2] = max_height
                                  THEN "Doing pass-through (copy)" ELSE "Scaling")
            /\ runs' = Append(runs, cmd)
            /\ returncode' = status
            /\ max_pixels' = IF better THEN res[1] * res[2] ELSE max_pixels
            /\ max_width' = IF better THEN res[1] ELSE max_width
            /\ max_height' = IF better THEN res[2] ELSE max_height
            /\ max_res_file' = IF better THEN mp4_files[i] ELSE max_res_file
    /\ i' = i + 1
    /\ UNCHANGED <<pc, mp4_files, probed, output_dir>>

(* One iteration of the processing loop: probe, build the command, run it. *)
ProcessStep ==
    /\ pc = "process"
    /\ i <= Len(mp4_files)
    /\ \E result \in FfprobeResults, status \in ExitStatuses :
         LET res == get_video_resolution(result)
             cmd == EncodeCmd(mp4_files[i], res[1], res[2], max_width, max_height)
         IN /\ w' = res[1]
            /\ h' = res[2]
            /\ probe_msg' = ProbeMessages(result)
            /\ out' = Append(out, IF res[1] = max_width /\ res[2] = max_height
                                  THEN "Doing pass-through (copy)" ELSE "Scaling")
            /\ runs' = Append(runs, cmd)
            /\ returncode' = status
    /\ i' = i + 1
    /\ UNCHANGED <<pc, mp4_files, max_pixels, max_width, max_height,
                   max_res_file, probed, output_dir>>

Finish ==
    /\ pc = "process"
    /\ i > Len(mp4_files)
    /\ pc' = "done"
    /\ out' = Append(out, "Done!")
    /\ UNCHANGED <<mp4_files, i, max_pixels, max_width, max_height,
                   max_res_file, w, h, probed, output_dir, runs, returncode, probe_msg>>

Next ==
    \/ NoFiles
    \/ StartSelection
    \/ SelectStep
    \/ SelectionFailure
    \/ CreateOutputDir
    \/ ProcessStep
    \/ Finish

Spec == Init /\ [][Next]_vars

(* subprocess.run blocks until the tool exits and main() has no other wait: *)
(* as long as the tools exit, main() takes its next step.                   *)
FairSpec == Spec /\ WF_vars(Next)

(* ------------------------------------------------------------------ *)
(* Vocabulary of the properties                                         *)
(* ------------------------------------------------------------------ *)

Pixels(res) == res[1] * res[2]

(* The largest pixel count among the resolutions of s, 0 for none. *)
MaxPixels(s) ==
    IF s = <<>> THEN 0
    ELSE CHOOSE m \in {Pixels(s[k]) : k \in 1..Len(s)} :
            \A k \in 1..Len(s) : Pixels(s[k]) <= m

(* The first position of s that attains the largest pixel count. *)
FirstBest(s) ==
    CHOOSE k \in 1..Len(s) :
        /\ Pixels(s[k]) = MaxPixels(s)
        /\ \A j \in 1..(k - 1) : Pixels(s[j]) < MaxPixels(s)

(* The selection loop has probed every file of a non-empty listing. *)
SelectionOver ==
    /\ mp4_files # <<>>
    /\ Len(probed) = Len(mp4_files)
    /\ \/ pc = "select" /\ i > Len(mp4_files)
       \/ pc \in {"process", "done"}

(* Argument a of a command line directly followed by argument b. *)
HasPair(cmd, a, b) == \E k \in 1..(Len(cmd) - 1) : cmd[k] = a /\ cmd[k + 1] = b

HasArg(cmd, a) == \E k \in 1..Len(cmd) : cmd[k] = a

(* A stream copy of video and audio, without a filter. *)
IsPassthrough(cmd) == HasPair(cmd, "-c", "copy") /\ ~HasArg(cmd, "-vf")

IsRescale(cmd) == HasArg(cmd, "-vf")

IsRescaleTo(cmd, width, height) ==
    HasPair(cmd, "-vf", "scale=" \o ToString(width) \o ":" \o ToString(height))

(* The command reads file k of the listing and writes it to the output dir. *)
IsForFile(cmd, k) ==
    /\ HasPair(cmd, "-i", FOLDER_PATH \o "/" \o mp4_files[k])
    /\ cmd[Len(cmd)] = FOLDER_PATH \o "/output/" \o mp4_files[k]

(* The latest step was an iteration of the processing loop. *)
Processed == runs # <<>>

LastRun == runs[Len(runs)]

(* ------------------------------------------------------------------ *)
(* Properties                                                           *)
(* ------------------------------------------------------------------ *)

(* C1: once the selection loop has probed every file and some probe gave   *)
(* a positive pixel count, (max_width, max_height) is the resolution of    *)
(* the first file, in enumeration order, whose pixel count is the largest  *)
(* of all probed files, and max_res_file is that file.                     *)
C1_FirstMaxSelected ==
    (SelectionOver /\ MaxPixels(probed) > 0) =>
        /\ max_pixels = MaxPixels(probed)
        /\ max_width = probed[FirstBest(probed)][1]
        /\ max_height = probed[FirstBest(probed)][2]
        /\ max_res_file = mp4_files[FirstBest(probed)]

(* Two files tie on the largest pixel count with different shapes. *)
C1_Witness ==
    /\ SelectionOver
    /\ Len(probed) >= 2
    /\ Pixels(probed[1]) = Pixels(probed[2])
    /\ probed[1] # probed[2]
    /\ max_pixels = Pixels(probed[1])
    /\ max_res_file = mp4_files[1]

(* C2: a file whose probe in the processing loop equals the target is      *)
(* dispatched as a stream copy without a scale filter.                     *)
C2_EqualIsPassthrough ==
    (Processed /\ w = max_width /\ h = max_height) =>
        /\ IsPassthrough(LastRun)
        /\ ~IsRescale(LastRun)
        /\ IsForFile(LastRun, Len(runs))

(* A file other than the selected one has the target's resolution. *)
C2_Witness ==
    /\ Processed
    /\ w = max_width /\ h = max_height
    /\ mp4_files[Len(runs)] # max_res_file

(* C3: a file whose probe in the processing loop differs from the target   *)
(* in width or height is dispatched with the filter scale=<max_width>:     *)
(* <max_height>, whatever its own width and height.                        *)
C3_DifferentIsRescale ==
    (Processed /\ (w # max_width \/ h # max_height)) =>
        /\ IsRescaleTo(LastRun, max_width, max_height)
        /\ ~IsPassthrough(LastRun)
        /\ IsForFile(LastRun, Len(runs))

(* A file with the target's pixel count but another shape is rescaled. *)
C3_Witness ==
    /\ Processed
    /\ w * h = max_pixels
    /\ w # max_width
    /\ IsRescale(LastRun)

(* C4: when every probe of the selection loop failed, main() reports that  *)
(* no highest resolution could be determined and runs no encode.           *)
C4_AllProbesFail ==
    (SelectionOver /\ \A k \in 1..Len(probed) : probed[k] = <<0, 0>>) =>
        /\ pc # "process"
        /\ runs = <<>>
        /\ ~output_dir
        /\ pc = "done" =>
             out = <<"Could not determine a file with the highest resolution.">>

C4_Witness ==
    /\ pc = "done"
    /\ Len(probed) >= 2
    /\ \A k \in 1..Len(probed) : probed[k] = <<0, 0>>
    /\ out # <<>>

EncoderArgs(cmd) == SubSeq(cmd, 7, Len(cmd) - 1)

OneRunPerFile ==
    /\ Len(runs) = Len(mp4_files)
    /\ \A k \in 1..Len(runs) :
         IsForFile(runs[k], k) /\ (IsPassthrough(runs[k]) \/ IsRescale(runs[k]))

(* C7: a run that reaches the processing loop ends, whatever the exit      *)
(* statuses of ffmpeg, with exactly one command issued per file, in        *)
(* enumeration order; a step of the loop always issues the command of the  *)
(* next file.                                                              *)
C7_EncodeFailuresIsolated ==
    /\ (pc = "process") ~> (pc = "done" /\ OneRunPerFile)
    /\ [][(pc = "process" /\ i <= Len(mp4_files)) =>
            (Len(runs') = Len(runs) + 1 /\ i' = i + 1 /\ pc' = "process")]_vars

(* The batch ended normally although its last encode failed. *)
C7_Witness ==
    /\ pc = "done"
    /\ Len(runs) >= 2
    /\ returncode = 1
    /\ out[Len(out)] = "Done!"

(* C8: every probe of the selection loop precedes the first encode, and    *)
(* from the moment the processing loop is entered max_pixels, max_width,   *)
(* max_height and max_res_file no longer change.                           *)
C8_TargetComputedOnce ==
    /\ [](Processed => (Len(probed) = Len(mp4_files) /\ output_dir))
    /\ [][(pc = "process" \/ Processed) =>
            UNCHANGED <<max_pixels, max_width, max_height, max_res_file>>]_vars

(* A probe of the processing loop found more pixels than the target. *)
C8_Witness ==
    /\ Processed
    /\ w * h > max_pixels
    /\ max_pixels > 0

(* C9, as claimed: whatever the probes return, the file that defines the   *)
(* target is dispatched as a stream copy.                                  *)
C9_TargetFilePassthrough ==
    \A k \in 1..Len(runs) :
        mp4_files[k] = max_res_file => IsPassthrough(runs[k])

(* C10: once the output directory exists or a command was issued, the      *)
(* target is not degenerate: max_pixels = max_width * max_height > 0, no   *)
(* filter is scale=0:0 and a failed probe never leads to a stream copy.    *)
C10_TargetNotDegenerate ==
    (output_dir \/ Processed) =>
        /\ max_pixels = max_width * max_height
        /\ max_pixels > 0
        /\ max_width > 0
        /\ max_height > 0
        /\ \A k \in 1..Len(runs) : ~HasArg(runs[k], "scale=0:0")
        /\ (Processed /\ w = 0 /\ h = 0) => IsRescale(LastRun)

(* A probe of the processing loop failed after a target was selected. *)
C10_Witness ==
    /\ Processed
    /\ w = 0 /\ h = 0
    /\ probe_msg # <<>>
    /\ IsRescale(LastRun)

=============================================================================
